---- MODULE Spec2Model ----
(***************************************************************************)
(* The concurrent in-memory user store of                                  *)
(* src/variables/go_variables_complete.md (type Server, lines 1436-1575):  *)
(* a map from id to *User and a nextID counter behind one sync.RWMutex,    *)
(* called by several goroutines.  Users are heap objects: the map, the     *)
(* values the store methods return and the slices getAllUsers builds all   *)
(* hold pointers (addresses) to them.                                      *)
(***************************************************************************)
EXTENDS Integers, Sequences, FiniteSets, TLC

\* ---- bounds of the model ----
NumProcs == 2      \* goroutines calling the store
MaxUsers == 2      \* createUser calls made in one behaviour
MaxTime == 2       \* largest reading of time.Now()
MaxCalls == 2      \* calls one goroutine makes in one behaviour

Procs == 1..NumProcs

\* the zero time.Time and the nil pointer
ZeroTime == 0
Nil == 0

VARIABLES
    users,      \* Server.users : id -> address of the User
    nextID,     \* Server.nextID
    mutex,      \* Server.mutex : [writer : proc or 0, readers : set of procs]
    heap,       \* the User objects, by address
    now,        \* the clock time.Now() reads
    pc,         \* per goroutine: where it is in its call
    op,         \* per goroutine: the call it is making and its arguments
    ret,        \* per goroutine: what its last call returned
    calls,      \* per goroutine: the number of calls it has made
    hist,       \* history of the calls (ghost state, read by the properties only)
    pool        \* the worker-pool example: its channels and goroutines

\* the variables of the user store
storeVars == <<users, nextID, mutex, heap, now, pc, op, ret, calls, hist>>

vars == <<users, nextID, mutex, heap, now, pc, op, ret, calls, hist, pool>>

\* ---- small helpers ----
Max(S) == IF S = {} THEN 0 ELSE CHOOSE x \in S : \A y \in S : y <= x

\* all orders in which a range over a Go map may visit the keys in S
RECURSIVE Orders(_)
Orders(S) ==
    IF S = {} THEN {<<>>}
    ELSE UNION {{<<k>> \o rest : rest \in Orders(S \ {k})} : k \in S}

\* type User struct, with the fields the store reads and writes
User(id, name, email, status, createdAt, updatedAt) ==
    [ID |-> id, Name |-> name, Email |-> email, Status |-> status,
     CreatedAt |-> createdAt, UpdatedAt |-> updatedAt]

\* a User as a caller builds it: only Name, Email and Status set
Payload(name, email, status) == User(0, name, email, status, ZeroTime, ZeroTime)

\* the users the callers of createUser pass: one without a status, and one
\* with a status but no name and no email (createUser itself checks nothing)
\* that also carries an id and timestamps, as a decoded request body can
CreatePayloads ==
    {Payload("alice", "a@x", ""),
     User(7, "", "", "pending", 9, 9)}

\* the updates the callers of updateUser pass: a status only, and a name
\* and an email without a status that also carries an id and timestamps
UpdatePayloads ==
    {Payload("", "", "inactive"),
     User(7, "bob", "a@x", "", 9, 9)}

NoUser == Payload("", "", "")

NoStats == [TotalUsers |-> 0, ActiveUsers |-> 0, InactiveUsers |-> 0]
\* a call: its arguments and the locals of its loop (getStats: the keys the
\* range has still to visit, and activeCount and inactiveCount in acc)
NoOp == [kind |-> "none", id |-> 0, ptr |-> Nil, updates |-> NoUser,
         todo |-> {}, acc |-> NoStats]
\* what a call returned and, for a handler, the response body it encodes
NoRet == [kind |-> "none", ptr |-> Nil, found |-> FALSE, list |-> <<>>, stats |-> NoStats,
          resp |-> NoUser]

\* ---- sync.RWMutex ----
NoLock == [writer |-> 0, readers |-> {}]

\* (mutant) Lock() does not wait for the readers
CanLock_IgnoresReaders(m) == m.writer = 0

\* Lock() returns: nobody holds the mutex in either mode
CanLock(m) == m.writer = 0 /\ m.readers = {}
\* (mutant) RLock() does not wait for the writer
CanRLock_IgnoresWriter(m) == TRUE

\* RLock() returns: no writer holds the mutex
CanRLock(m) == m.writer = 0

Lock(m, p) == [m EXCEPT !.writer = p]
Unlock(m, p) == [m EXCEPT !.writer = 0]
RLock(m, p) == [m EXCEPT !.readers = @ \cup {p}]
\* (mutant) RUnlock() leaves the reader registered
RUnlock_KeepsReader(m, p) == m

RUnlock(m, p) == [m EXCEPT !.readers = @ \ {p}]

\* ---- the worker-pool example: func worker and its func main ----
NumWorkers == 3     \* for w := 1; w <= 3; w++
NumJobs == 9        \* for j := 1; j <= 9; j++ and for r := 1; r <= 9; r++
ChanCap == 100      \* make(chan int, 100)

Workers == 1..NumWorkers

\* main at its first statement: both channels made and empty, no worker
\* started.  taken, served and produced are history: how often each job
\* was received, the workers that have received a job, and the number of
\* results sent.
NewPool ==
    [jobs |-> <<>>, closed |-> FALSE, results |-> <<>>,
     mainpc |-> "start", w |-> 1, j |-> 1, r |-> 1,
     wpc |-> [k \in Workers |-> "none"],
     job |-> [k \in Workers |-> 0],
     received |-> {},
     taken |-> [n \in 1..NumJobs |-> 0],
     served |-> {},
     produced |-> 0]

\* ---- initial state: NewServer, before any call ----
NoLast == [valid |-> FALSE, list |-> <<>>, vals |-> <<>>]

\* the last createUser or updateUser of a goroutine that returned a user:
\* the user and its value at the return, the updates (NoUser for a
\* createUser), whether another goroutine's updateUser of the same id was
\* in progress at the return, the number of updateUser calls that have
\* found the user since, and the size of the map at the return
NoMut == [ptr |-> Nil, val |-> NoUser, updates |-> NoUser, overlap |-> FALSE,
          after |-> 0, total |-> 0]

NoHist ==
    [createRets |-> <<>>,                   \* what createUser returned (id and pointer),
                                            \* in order of return
     callFloor |-> [p \in Procs |-> 0],     \* largest id a createUser had returned when
                                            \* p's createUser was called
     snap |-> <<>>,                         \* per address: the User as createUser returned
                                            \* it, until an updateUser finds it
     pre |-> [p \in Procs |-> NoUser],      \* the User as p's running updateUser found it
     last |-> NoLast,                       \* what the last getAllUsers returned, until a
                                            \* createUser or an updateUser changes the store
     mut |-> [p \in Procs |-> NoMut],       \* per goroutine, its last createUser or
                                            \* updateUser, until it calls the next one
     handled |-> {},                        \* the Users that came in through handleCreateUser
     rejected |-> 0,                        \* the requests handleCreateUser has rejected
     seen |-> [p \in Procs |-> {}]]         \* while p encodes a user: the values the user
                                            \* had between updateUser calls since p began

\* the ids the completed createUser calls returned
ReturnedIds == {hist.createRets[i].id : i \in 1..Len(hist.createRets)}
\* the Users the completed createUser calls returned
ReturnedPtrs == {hist.createRets[i].ptr : i \in 1..Len(hist.createRets)}

NewServer ==
    /\ users = <<>>
    /\ nextID = 1
    /\ mutex = NoLock

Init ==
    /\ NewServer
    /\ heap = <<>>
    /\ now = 1
    /\ pc = [p \in Procs |-> "idle"]
    /\ op = [p \in Procs |-> NoOp]
    /\ ret = [p \in Procs |-> NoRet]
    /\ hist = NoHist
    /\ calls = [p \in Procs |-> 0]
    /\ pool = NewPool

\* ids the callers ask for; an id is absent until its createUser has run
IdArgs == 1..MaxUsers

\* m[k] = v of a Go map
MapSet(m, k, v) == [x \in DOMAIN m \cup {k} |-> IF x = k THEN v ELSE m[x]]

\* ---- the callers ----
\* A goroutine builds a User (var user User / a literal of seedData) and
\* calls createUser with its address.
Call_createUser(p) ==
    /\ pc[p] \in {"idle", "ret"}
    /\ calls[p] < MaxCalls
    /\ calls' = [calls EXCEPT ![p] = @ + 1]
    /\ Len(heap) < MaxUsers
    /\ \E u \in CreatePayloads :
        /\ heap' = Append(heap, u)
        /\ op' = [op EXCEPT ![p] = [NoOp EXCEPT !.kind = "create", !.ptr = Len(heap) + 1]]
        /\ hist' = [hist EXCEPT !.snap = Append(@, u),
                                !.callFloor[p] = Max(ReturnedIds),
                                !.mut[p] = NoMut]
    /\ pc' = [pc EXCEPT ![p] = "lock"]
    /\ ret' = [ret EXCEPT ![p] = NoRet]
    /\ UNCHANGED <<users, nextID, mutex, now>>
    /\ UNCHANGED pool

Call_getUser(p) ==
    /\ pc[p] \in {"idle", "ret"}
    /\ calls[p] < MaxCalls
    /\ calls' = [calls EXCEPT ![p] = @ + 1]
    /\ \E id \in IdArgs :
        op' = [op EXCEPT ![p] = [NoOp EXCEPT !.kind = "get", !.id = id]]
    /\ pc' = [pc EXCEPT ![p] = "rlock"]
    /\ ret' = [ret EXCEPT ![p] = NoRet]
    /\ UNCHANGED <<users, nextID, mutex, heap, now, hist>>
    /\ UNCHANGED pool

Call_getAllUsers(p) ==
    /\ pc[p] \in {"idle", "ret"}
    /\ calls[p] < MaxCalls
    /\ calls' = [calls EXCEPT ![p] = @ + 1]
    /\ op' = [op EXCEPT ![p] = [NoOp EXCEPT !.kind = "list"]]
    /\ pc' = [pc EXCEPT ![p] = "rlock"]
    /\ ret' = [ret EXCEPT ![p] = NoRet]
    /\ UNCHANGED <<users, nextID, mutex, heap, now, hist>>
    /\ UNCHANGED pool

Call_updateUser(p) ==
    /\ pc[p] \in {"idle", "ret"}
    /\ calls[p] < MaxCalls
    /\ calls' = [calls EXCEPT ![p] = @ + 1]
    /\ \E id \in IdArgs, u \in UpdatePayloads :
        op' = [op EXCEPT ![p] = [NoOp EXCEPT !.kind = "update", !.id = id, !.updates = u]]
    /\ pc' = [pc EXCEPT ![p] = "lock"]
    /\ ret' = [ret EXCEPT ![p] = NoRet]
    /\ hist' = [hist EXCEPT !.mut[p] = NoMut]
    /\ UNCHANGED <<users, nextID, mutex, heap, now>>
    /\ UNCHANGED pool

Call_getStats(p) ==
    /\ pc[p] \in {"idle", "ret"}
    /\ calls[p] < MaxCalls
    /\ calls' = [calls EXCEPT ![p] = @ + 1]
    /\ op' = [op EXCEPT ![p] = [NoOp EXCEPT !.kind = "stats"]]
    /\ pc' = [pc EXCEPT ![p] = "rlock"]
    /\ ret' = [ret EXCEPT ![p] = NoRet]
    /\ UNCHANGED <<users, nextID, mutex, heap, now, hist>>
    /\ UNCHANGED pool

\* ---- the HTTP handlers ----
\* a request body: whether it decodes, and the User it decodes to
Body_(ok, user) == [ok |-> ok, user |-> user]

\* the bodies of the POST /users requests: one that is not JSON, one
\* without a name, one without an email, one whose name is a blank, and a
\* complete one
CreateBodies ==
    {Body_(FALSE, NoUser),
     Body_(TRUE, Payload("", "a@x", "")),
     Body_(TRUE, Payload("alice", "", "")),
     Body_(TRUE, Payload(" ", "a@x", "")),
     Body_(TRUE, Payload("alice", "a@x", ""))}

\* the model's strings that are empty or consist of white space only
WhitespaceOnly == {"", " "}

\* handleCreateUser answers 400: the body does not decode, or
\* user.Name == "" || user.Email == ""
Rejects(body) == ~body.ok \/ body.user.Name = "" \/ body.user.Email = ""

\* (mutant) a rejected request has taken an id
handleCreateUser_ReservesId(p) ==
    /\ pc[p] \in {"idle", "ret"}
    /\ calls[p] < MaxCalls
    /\ calls' = [calls EXCEPT ![p] = @ + 1]
    /\ \E body \in CreateBodies :
        IF Rejects(body)
        THEN /\ ret' = [ret EXCEPT ![p] = [NoRet EXCEPT !.kind = "rejected"]]
             /\ hist' = [hist EXCEPT !.rejected = @ + 1]
             /\ nextID' = nextID + 1
             /\ UNCHANGED <<heap, op, pc>>
        ELSE /\ Len(heap) < MaxUsers
             /\ heap' = Append(heap, body.user)
             /\ op' = [op EXCEPT ![p] = [NoOp EXCEPT !.kind = "create",
                                                     !.ptr = Len(heap) + 1]]
             /\ hist' = [hist EXCEPT !.snap = Append(@, body.user),
                                     !.callFloor[p] = Max(ReturnedIds),
                                     !.mut[p] = NoMut,
                                     !.handled = @ \cup {Len(heap) + 1}]
             /\ pc' = [pc EXCEPT ![p] = "lock"]
             /\ ret' = [ret EXCEPT ![p] = NoRet]
             /\ UNCHANGED nextID
    /\ UNCHANGED <<users, mutex, now>>
    /\ UNCHANGED pool

\* handleCreateUser up to its call of createUser: decode the body into a
\* User, answer 400 if that fails or Name or Email is empty, else call
\* s.createUser(&user)
handleCreateUser(p) ==
    /\ pc[p] \in {"idle", "ret"}
    /\ calls[p] < MaxCalls
    /\ calls' = [calls EXCEPT ![p] = @ + 1]
    /\ \E body \in CreateBodies :
        IF Rejects(body)
        THEN /\ ret' = [ret EXCEPT ![p] = [NoRet EXCEPT !.kind = "rejected"]]
             /\ hist' = [hist EXCEPT !.rejected = @ + 1]
             /\ UNCHANGED <<heap, op, pc>>
        ELSE /\ Len(heap) < MaxUsers
             /\ heap' = Append(heap, body.user)
             /\ op' = [op EXCEPT ![p] = [NoOp EXCEPT !.kind = "create",
                                                     !.ptr = Len(heap) + 1]]
             /\ hist' = [hist EXCEPT !.snap = Append(@, body.user),
                                     !.callFloor[p] = Max(ReturnedIds),
                                     !.mut[p] = NoMut,
                                     !.handled = @ \cup {Len(heap) + 1}]
             /\ pc' = [pc EXCEPT ![p] = "lock"]
             /\ ret' = [ret EXCEPT ![p] = NoRet]
    /\ UNCHANGED <<users, nextID, mutex, now>>
    /\ UNCHANGED pool

\* the value a user has between updateUser calls: as the updateUser at
\* work on it found it, or as it is when none is at work on it
Committed(a) ==
    IF \E q \in Procs : op[q].kind = "update" /\ op[q].ptr = a
    THEN hist.pre[CHOOSE q \in Procs : op[q].kind = "update" /\ op[q].ptr = a]
    ELSE heap[a]

\* json.NewEncoder(w).Encode(user) in handleGetUser, handleCreateUser and
\* handleUpdateUser, after the store method has returned and released the
\* mutex: the encoder reads the fields of *user one after the other.  The
\* reads are grouped in two steps: ID, Name and Email ...
Encode_1(p) ==
    /\ pc[p] = "ret"
    /\ ret[p].kind \in {"get", "create", "update"}
    /\ ret[p].ptr # Nil
    /\ LET u == heap[ret[p].ptr]
       IN ret' = [ret EXCEPT ![p].resp = [NoUser EXCEPT !.ID = u.ID, !.Name = u.Name,
                                                       !.Email = u.Email]]
    /\ pc' = [pc EXCEPT ![p] = "encode"]
    /\ hist' = [hist EXCEPT !.seen[p] = {Committed(ret[p].ptr)}]
    /\ UNCHANGED <<users, nextID, mutex, heap, now, op, calls>>
    /\ UNCHANGED pool

\* ... then Status, CreatedAt and UpdatedAt, and the response is sent
Encode_2(p) ==
    /\ pc[p] = "encode"
    /\ LET u == heap[ret[p].ptr]
       IN ret' = [ret EXCEPT ![p] = [NoRet EXCEPT
                     !.kind = "sent",
                     !.resp = [ret[p].resp EXCEPT !.Status = u.Status,
                                                  !.CreatedAt = u.CreatedAt,
                                                  !.UpdatedAt = u.UpdatedAt]]]
    /\ pc' = [pc EXCEPT ![p] = "ret"]
    /\ hist' = [hist EXCEPT !.seen[p] = {}]
    /\ UNCHANGED <<users, nextID, mutex, heap, now, op, calls>>
    /\ UNCHANGED pool

\* ---- s.mutex.Lock() / s.mutex.RLock() return ----
FirstStep(kind) ==
    CASE kind = "create" -> "create_1"
      [] kind = "update" -> "update_1"
      [] kind = "get" -> "get_1"
      [] kind = "list" -> "list_1"
      [] kind = "stats" -> "stats_range"

\* (mutant) Lock() does not wait for another writer
AcquireLock_NotExclusive(p) ==
    /\ pc[p] = "lock"
    /\ mutex.readers = {}
    /\ mutex' = Lock(mutex, p)
    /\ pc' = [pc EXCEPT ![p] = FirstStep(op[p].kind)]
    /\ UNCHANGED <<users, nextID, heap, now, op, ret, calls, hist>>
    /\ UNCHANGED pool

AcquireLock(p) ==
    /\ pc[p] = "lock"
    /\ CanLock(mutex)
    /\ mutex' = Lock(mutex, p)
    /\ pc' = [pc EXCEPT ![p] = FirstStep(op[p].kind)]
    /\ UNCHANGED <<users, nextID, heap, now, op, ret, calls, hist>>
    /\ UNCHANGED pool

AcquireRLock(p) ==
    /\ pc[p] = "rlock"
    /\ CanRLock(mutex)
    /\ mutex' = RLock(mutex, p)
    /\ pc' = [pc EXCEPT ![p] = FirstStep(op[p].kind)]
    /\ UNCHANGED <<users, nextID, heap, now, op, ret, calls, hist>>
    /\ UNCHANGED pool

\* ---- createUser ----
\* (mutant) an id the caller supplied is kept
createUser_1_KeepsSuppliedID(p) ==
    /\ pc[p] = "create_1"
    /\ heap' = [heap EXCEPT ![op[p].ptr].ID = IF @ = 0 THEN nextID ELSE @]
    /\ pc' = [pc EXCEPT ![p] = "create_2"]
    /\ UNCHANGED <<users, nextID, mutex, now, op, ret, calls, hist>>
    /\ UNCHANGED pool

\* user.ID = s.nextID
createUser_1(p) ==
    /\ pc[p] = "create_1"
    /\ heap' = [heap EXCEPT ![op[p].ptr].ID = nextID]
    /\ pc' = [pc EXCEPT ![p] = "create_2"]
    /\ UNCHANGED <<users, nextID, mutex, now, op, ret, calls, hist>>
    /\ UNCHANGED pool

\* (mutant) the counter is not advanced
createUser_2_NoIncrement(p) ==
    /\ pc[p] = "create_2"
    /\ heap' = [heap EXCEPT ![op[p].ptr].CreatedAt = now]
    /\ pc' = [pc EXCEPT ![p] = "create_3"]
    /\ UNCHANGED <<users, nextID, mutex, now, op, ret, calls, hist>>
    /\ UNCHANGED pool

\* s.nextID++; user.CreatedAt = time.Now()
createUser_2(p) ==
    /\ pc[p] = "create_2"
    /\ nextID' = nextID + 1
    /\ heap' = [heap EXCEPT ![op[p].ptr].CreatedAt = now]
    /\ pc' = [pc EXCEPT ![p] = "create_3"]
    /\ UNCHANGED <<users, mutex, now, op, ret, calls, hist>>
    /\ UNCHANGED pool

\* (mutant) every new user is made active
DefaultStatus_AlwaysActive(status) == "active"

\* (mutant) the status is stored as passed, without a default
DefaultStatus_AsPassed(status) == status

\* the status createUser stores for the status the caller passed
DefaultStatus(status) == IF status = "" THEN "active" ELSE status

\* (mutant) the user is stored under the counter, not under its id
createUser_3_WrongKey(p) ==
    /\ pc[p] = "create_3"
    /\ LET a == op[p].ptr
           u == [heap[a] EXCEPT !.UpdatedAt = now,
                                !.Status = DefaultStatus(heap[a].Status)]
       IN /\ heap' = [heap EXCEPT ![a] = u]
          /\ users' = MapSet(users, nextID, a)
          /\ ret' = [ret EXCEPT ![p] = [NoRet EXCEPT !.kind = "create", !.ptr = a]]
          /\ hist' = [hist EXCEPT !.createRets = Append(@, [id |-> u.ID, ptr |-> a]),
                                  !.snap[a] = u,
                                  !.last = NoLast,
                                  !.mut[p] = [NoMut EXCEPT !.ptr = a, !.val = u,
                                                 !.total = Cardinality(DOMAIN users')]]
    /\ mutex' = Unlock(mutex, p)
    /\ pc' = [pc EXCEPT ![p] = "ret"]
    /\ op' = [op EXCEPT ![p] = NoOp]
    /\ UNCHANGED <<nextID, now, calls>>
    /\ UNCHANGED pool

\* user.UpdatedAt = time.Now(); the status default; s.users[user.ID] = user;
\* return user, with the deferred s.mutex.Unlock()
createUser_3(p) ==
    /\ pc[p] = "create_3"
    /\ LET a == op[p].ptr
           u == [heap[a] EXCEPT !.UpdatedAt = now,
                                !.Status = DefaultStatus(heap[a].Status)]
       IN /\ heap' = [heap EXCEPT ![a] = u]
          /\ users' = MapSet(users, u.ID, a)
          /\ ret' = [ret EXCEPT ![p] = [NoRet EXCEPT !.kind = "create", !.ptr = a]]
          /\ hist' = [hist EXCEPT !.createRets = Append(@, [id |-> u.ID, ptr |-> a]),
                                  !.snap[a] = u,
                                  !.last = NoLast,
                                  !.mut[p] = [NoMut EXCEPT !.ptr = a, !.val = u,
                                                 !.total = Cardinality(DOMAIN users')]]
    /\ mutex' = Unlock(mutex, p)
    /\ pc' = [pc EXCEPT ![p] = "ret"]
    /\ op' = [op EXCEPT ![p] = NoOp]
    /\ UNCHANGED <<nextID, now, calls>>
    /\ UNCHANGED pool

\* ---- getUser ----
\* (mutant) the lookup uses the wrong key
getUser_WrongKey(p) ==
    /\ pc[p] = "get_1"
    /\ LET exists == (op[p].id + 1) \in DOMAIN users
           user == IF exists THEN users[op[p].id + 1] ELSE Nil
       IN ret' = [ret EXCEPT ![p] = [NoRet EXCEPT !.kind = "get", !.ptr = user,
                                                  !.found = exists]]
    /\ mutex' = RUnlock(mutex, p)
    /\ pc' = [pc EXCEPT ![p] = "ret"]
    /\ op' = [op EXCEPT ![p] = NoOp]
    /\ UNCHANGED <<users, nextID, heap, now, calls, hist>>
    /\ UNCHANGED pool

\* (mutant) a user that is found is stamped as just touched
getUser_TouchesUser(p) ==
    /\ pc[p] = "get_1"
    /\ LET exists == op[p].id \in DOMAIN users
           user == IF exists THEN users[op[p].id] ELSE Nil
       IN /\ ret' = [ret EXCEPT ![p] = [NoRet EXCEPT !.kind = "get", !.ptr = user,
                                                     !.found = exists]]
          /\ heap' = IF exists THEN [heap EXCEPT ![user].UpdatedAt = now] ELSE heap
    /\ mutex' = RUnlock(mutex, p)
    /\ pc' = [pc EXCEPT ![p] = "ret"]
    /\ op' = [op EXCEPT ![p] = NoOp]
    /\ UNCHANGED <<users, nextID, now, calls, hist>>
    /\ UNCHANGED pool

\* user, exists := s.users[id]; return user, exists, with the deferred RUnlock
getUser(p) ==
    /\ pc[p] = "get_1"
    /\ LET exists == op[p].id \in DOMAIN users
           user == IF exists THEN users[op[p].id] ELSE Nil
       IN ret' = [ret EXCEPT ![p] = [NoRet EXCEPT !.kind = "get", !.ptr = user,
                                                  !.found = exists]]
    /\ mutex' = RUnlock(mutex, p)
    /\ pc' = [pc EXCEPT ![p] = "ret"]
    /\ op' = [op EXCEPT ![p] = NoOp]
    /\ UNCHANGED <<users, nextID, heap, now, calls, hist>>
    /\ UNCHANGED pool

\* ---- getAllUsers ----
\* (mutant) the loop may stop before it has visited every key
ListOf_MayStopEarly(m) ==
    {[i \in 1..n |-> m[ks[i]]] : ks \in Orders(DOMAIN m), n \in 0..Cardinality(DOMAIN m)}

\* the slices the loop over s.users can build: one pointer per key, in any
\* order (Go does not fix the iteration order of a map)
ListOf(m) == {[i \in 1..Len(ks) |-> m[ks[i]]] : ks \in Orders(DOMAIN m)}

\* users := make([]*User, 0, len(s.users)); the loop; return users, with the
\* deferred RUnlock
getAllUsers(p) ==
    /\ pc[p] = "list_1"
    /\ \E l \in ListOf(users) :
        /\ ret' = [ret EXCEPT ![p] = [NoRet EXCEPT !.kind = "list", !.list = l]]
        /\ hist' = [hist EXCEPT !.last = [valid |-> TRUE, list |-> l,
                                          vals |-> [i \in 1..Len(l) |-> heap[l[i]]]]]
    /\ mutex' = RUnlock(mutex, p)
    /\ pc' = [pc EXCEPT ![p] = "ret"]
    /\ op' = [op EXCEPT ![p] = NoOp]
    /\ UNCHANGED <<users, nextID, heap, now, calls>>
    /\ UNCHANGED pool

\* ---- updateUser ----
\* (mutant) the not-found return leaves without Unlock()
updateUser_1_NoUnlockOnMiss(p) ==
    /\ pc[p] = "update_1"
    /\ IF op[p].id \in DOMAIN users
       THEN /\ op' = [op EXCEPT ![p].ptr = users[op[p].id]]
            /\ pc' = [pc EXCEPT ![p] = "update_2"]
            /\ hist' = [hist EXCEPT !.pre[p] = heap[users[op[p].id]],
                                    !.snap[users[op[p].id]] = NoUser,
                                    !.last = NoLast]
            /\ UNCHANGED ret
       ELSE /\ ret' = [ret EXCEPT ![p] = [NoRet EXCEPT !.kind = "update", !.ptr = Nil,
                                                       !.found = FALSE]]
            /\ pc' = [pc EXCEPT ![p] = "ret"]
            /\ op' = [op EXCEPT ![p] = NoOp]
            /\ UNCHANGED hist
    /\ UNCHANGED <<users, nextID, mutex, heap, now, calls>>
    /\ UNCHANGED pool

\* (mutant) an id that is not in the map is inserted (an upsert)
updateUser_1_Upsert(p) ==
    /\ pc[p] = "update_1"
    /\ IF op[p].id \in DOMAIN users
       THEN /\ op' = [op EXCEPT ![p].ptr = users[op[p].id]]
            /\ pc' = [pc EXCEPT ![p] = "update_2"]
            /\ hist' = [hist EXCEPT !.pre[p] = heap[users[op[p].id]],
                                    !.snap[users[op[p].id]] = NoUser,
                                    !.last = NoLast]
            /\ UNCHANGED <<mutex, ret, users, heap>>
       ELSE /\ ret' = [ret EXCEPT ![p] = [NoRet EXCEPT !.kind = "update", !.ptr = Nil,
                                                       !.found = FALSE]]
            /\ heap' = Append(heap, [op[p].updates EXCEPT !.ID = op[p].id])
            /\ users' = MapSet(users, op[p].id, Len(heap) + 1)
            /\ mutex' = Unlock(mutex, p)
            /\ pc' = [pc EXCEPT ![p] = "ret"]
            /\ op' = [op EXCEPT ![p] = NoOp]
            /\ hist' = [hist EXCEPT !.snap = Append(@, NoUser), !.last = NoLast]
    /\ UNCHANGED <<nextID, now, calls>>
    /\ UNCHANGED pool

\* user, exists := s.users[id]; if !exists { return nil, false }
updateUser_1(p) ==
    /\ pc[p] = "update_1"
    /\ IF op[p].id \in DOMAIN users
       THEN /\ op' = [op EXCEPT ![p].ptr = users[op[p].id]]
            /\ pc' = [pc EXCEPT ![p] = "update_2"]
            /\ hist' = [hist EXCEPT !.pre[p] = heap[users[op[p].id]],
                                    !.snap[users[op[p].id]] = NoUser,
                                    !.last = NoLast]
            /\ UNCHANGED <<mutex, ret>>
       ELSE /\ ret' = [ret EXCEPT ![p] = [NoRet EXCEPT !.kind = "update", !.ptr = Nil,
                                                       !.found = FALSE]]
            /\ mutex' = Unlock(mutex, p)
            /\ pc' = [pc EXCEPT ![p] = "ret"]
            /\ op' = [op EXCEPT ![p] = NoOp]
            /\ UNCHANGED hist
    /\ UNCHANGED <<users, nextID, heap, now, calls>>
    /\ UNCHANGED pool

\* (mutant) the field is assigned whether or not the update provides it
Provided_Always(old, new) == new

\* if updates.X != "" { user.X = updates.X }
Provided(old, new) == IF new # "" THEN new ELSE old

\* (mutant) the ID and CreatedAt of the update are copied too
updateUser_2_CopiesIdentity(p) ==
    /\ pc[p] = "update_2"
    /\ heap' = [heap EXCEPT ![op[p].ptr].Name = Provided(@, op[p].updates.Name),
                            ![op[p].ptr].ID = IF op[p].updates.ID # 0
                                              THEN op[p].updates.ID ELSE @,
                            ![op[p].ptr].CreatedAt = IF op[p].updates.CreatedAt # ZeroTime
                                                     THEN op[p].updates.CreatedAt ELSE @]
    /\ pc' = [pc EXCEPT ![p] = "update_3"]
    /\ UNCHANGED <<users, nextID, mutex, now, op, ret, calls, hist>>
    /\ UNCHANGED pool

\* if updates.Name != "" { user.Name = updates.Name }
updateUser_2(p) ==
    /\ pc[p] = "update_2"
    /\ heap' = [heap EXCEPT ![op[p].ptr].Name = Provided(@, op[p].updates.Name)]
    /\ pc' = [pc EXCEPT ![p] = "update_3"]
    /\ UNCHANGED <<users, nextID, mutex, now, op, ret, calls, hist>>
    /\ UNCHANGED pool

\* if updates.Email != "" { user.Email = updates.Email }
updateUser_3(p) ==
    /\ pc[p] = "update_3"
    /\ heap' = [heap EXCEPT ![op[p].ptr].Email = Provided(@, op[p].updates.Email)]
    /\ pc' = [pc EXCEPT ![p] = "update_4"]
    /\ UNCHANGED <<users, nextID, mutex, now, op, ret, calls, hist>>
    /\ UNCHANGED pool

\* if updates.Status != "" { user.Status = updates.Status }
updateUser_4(p) ==
    /\ pc[p] = "update_4"
    /\ heap' = [heap EXCEPT ![op[p].ptr].Status = Provided(@, op[p].updates.Status)]
    /\ pc' = [pc EXCEPT ![p] = "update_5"]
    /\ UNCHANGED <<users, nextID, mutex, now, op, ret, calls, hist>>
    /\ UNCHANGED pool

\* (mutant) UpdatedAt is not refreshed
updateUser_5_NoRefresh(p) ==
    /\ pc[p] = "update_5"
    /\ heap' = heap
    /\ ret' = [ret EXCEPT ![p] = [NoRet EXCEPT !.kind = "update", !.ptr = op[p].ptr,
                                               !.found = TRUE]]
    /\ mutex' = Unlock(mutex, p)
    /\ pc' = [pc EXCEPT ![p] = "ret"]
    /\ op' = [op EXCEPT ![p] = NoOp]
    /\ hist' = [hist EXCEPT
                   !.pre[p] = NoUser,
                   !.seen = [q \in Procs |->
                       IF pc[q] = "encode" /\ ret[q].ptr = op[p].ptr
                       THEN @[q] \cup {heap'[op[p].ptr]} ELSE @[q]],
                   !.mut = [q \in Procs |->
                       IF q = p
                       THEN [ptr |-> op[p].ptr, val |-> heap'[op[p].ptr],
                             updates |-> op[p].updates,
                             overlap |-> \E r \in Procs \ {p} :
                                            op[r].kind = "update" /\ op[r].id = op[p].id,
                             after |-> 0, total |-> Cardinality(DOMAIN users)]
                       ELSE IF @[q].ptr = op[p].ptr
                            THEN [@[q] EXCEPT !.after = @ + 1]
                            ELSE @[q]]]
    /\ UNCHANGED <<users, nextID, now, calls>>
    /\ UNCHANGED pool

\* user.UpdatedAt = time.Now(); return user, true, with the deferred Unlock
updateUser_5(p) ==
    /\ pc[p] = "update_5"
    /\ heap' = [heap EXCEPT ![op[p].ptr].UpdatedAt = now]
    /\ ret' = [ret EXCEPT ![p] = [NoRet EXCEPT !.kind = "update", !.ptr = op[p].ptr,
                                               !.found = TRUE]]
    /\ mutex' = Unlock(mutex, p)
    /\ pc' = [pc EXCEPT ![p] = "ret"]
    /\ op' = [op EXCEPT ![p] = NoOp]
    /\ hist' = [hist EXCEPT
                   !.pre[p] = NoUser,
                   !.seen = [q \in Procs |->
                       IF pc[q] = "encode" /\ ret[q].ptr = op[p].ptr
                       THEN @[q] \cup {heap'[op[p].ptr]} ELSE @[q]],
                   !.mut = [q \in Procs |->
                       IF q = p
                       THEN [ptr |-> op[p].ptr, val |-> heap'[op[p].ptr],
                             updates |-> op[p].updates,
                             overlap |-> \E r \in Procs \ {p} :
                                            op[r].kind = "update" /\ op[r].id = op[p].id,
                             after |-> 0, total |-> Cardinality(DOMAIN users)]
                       ELSE IF @[q].ptr = op[p].ptr
                            THEN [@[q] EXCEPT !.after = @ + 1]
                            ELSE @[q]]]
    /\ UNCHANGED <<users, nextID, now, calls>>
    /\ UNCHANGED pool

\* ---- getStats ----
\* (mutant) only the status "inactive" counts as inactive
Count_OnlyInactive(acc, status) ==
    IF status = "active" THEN [acc EXCEPT !.ActiveUsers = @ + 1]
    ELSE IF status = "inactive" THEN [acc EXCEPT !.InactiveUsers = @ + 1]
    ELSE acc

\* the body of the loop: activeCount++ for a user whose status is "active",
\* inactiveCount++ for any other
Count(acc, status) ==
    IF status = "active" THEN [acc EXCEPT !.ActiveUsers = @ + 1]
    ELSE [acc EXCEPT !.InactiveUsers = @ + 1]

\* (mutant) the total is taken from the counter, not from the map
Total_NextID(m) == nextID

\* TotalUsers: len(s.users)
Total(m) == Cardinality(DOMAIN m)

\* the loop over s.users, run to its end over the map m and the heap h
RECURSIVE StatsLoop(_, _, _, _)
StatsLoop(keys, m, h, acc) ==
    IF keys = {} THEN acc
    ELSE LET k == CHOOSE x \in keys : TRUE
         IN StatsLoop(keys \ {k}, m, h, Count(acc, h[m[k]].Status))

\* the ServerStats getStats builds when nothing else runs: the two counters
\* and len(s.users)
StatsOf(m, h) ==
    [StatsLoop(DOMAIN m, m, h, NoStats) EXCEPT !.TotalUsers = Total(m)]

\* the per-status counts a ServerStats carries: its fields active_users and
\* inactive_users, both always present
PerStatus(stats) ==
    [s \in {"active", "inactive"} |->
        IF s = "active" THEN stats.ActiveUsers ELSE stats.InactiveUsers]

\* var activeCount, inactiveCount int; the range over s.users starts
getStats_range(p) ==
    /\ pc[p] = "stats_range"
    /\ op' = [op EXCEPT ![p].todo = DOMAIN users, ![p].acc = NoStats]
    /\ pc' = [pc EXCEPT ![p] = IF DOMAIN users = {} THEN "stats_1" ELSE "stats_loop"]
    /\ UNCHANGED <<users, nextID, mutex, heap, now, ret, calls, hist>>
    /\ UNCHANGED pool

\* one iteration of the loop, for a key the range has not visited yet
getStats_loop(p) ==
    /\ pc[p] = "stats_loop"
    /\ \E k \in op[p].todo :
        /\ op' = [op EXCEPT ![p].todo = @ \ {k},
                            ![p].acc = Count(@, heap[users[k]].Status)]
        /\ pc' = [pc EXCEPT ![p] = IF op[p].todo = {k} THEN "stats_1" ELSE "stats_loop"]
    /\ UNCHANGED <<users, nextID, mutex, heap, now, ret, calls, hist>>
    /\ UNCHANGED pool

\* return &ServerStats{TotalUsers: len(s.users), ...}, with the deferred
\* RUnlock
getStats(p) ==
    /\ pc[p] = "stats_1"
    /\ ret' = [ret EXCEPT ![p] = [NoRet EXCEPT !.kind = "stats",
                                               !.stats = [op[p].acc EXCEPT
                                                   !.TotalUsers = Total(users)]]]
    /\ mutex' = RUnlock(mutex, p)
    /\ pc' = [pc EXCEPT ![p] = "ret"]
    /\ op' = [op EXCEPT ![p] = NoOp]
    /\ UNCHANGED <<users, nextID, heap, now, calls, hist>>
    /\ UNCHANGED pool

\* ---- the clock ----
\* time passes between two readings of time.Now(); readings never go back
Tick ==
    /\ now < MaxTime
    /\ now' = now + 1
    /\ UNCHANGED <<users, nextID, mutex, heap, pc, op, ret, calls, hist>>
    /\ UNCHANGED pool

Next ==
    \/ \E p \in Procs : Call_createUser(p)
    \/ \E p \in Procs : Call_getUser(p)
    \/ \E p \in Procs : Call_getAllUsers(p)
    \/ \E p \in Procs : Call_updateUser(p)
    \/ \E p \in Procs : Call_getStats(p)
    \/ \E p \in Procs : AcquireLock(p)
    \/ \E p \in Procs : AcquireRLock(p)
    \/ \E p \in Procs : createUser_1(p)
    \/ \E p \in Procs : createUser_2(p)
    \/ \E p \in Procs : createUser_3(p)
    \/ \E p \in Procs : getUser(p)
    \/ \E p \in Procs : getAllUsers(p)
    \/ \E p \in Procs : updateUser_1(p)
    \/ \E p \in Procs : updateUser_2(p)
    \/ \E p \in Procs : updateUser_3(p)
    \/ \E p \in Procs : updateUser_4(p)
    \/ \E p \in Procs : updateUser_5(p)
    \/ \E p \in Procs : getStats_range(p)
    \/ \E p \in Procs : getStats_loop(p)
    \/ \E p \in Procs : getStats(p)
    \/ Tick

Spec == Init /\ [][Next]_vars

\* ---- the worker pool ----
\* the result of a job: results <- job * 2
expensiveOperation(job) == job * 2

\* go worker(w, jobs, results), once per turn of the first loop of main
Main_go ==
    /\ pool.mainpc = "start"
    /\ pool' = [pool EXCEPT !.wpc[pool.w] = "range",
                            !.w = @ + 1,
                            !.mainpc = IF pool.w = NumWorkers THEN "send" ELSE "start"]
    /\ UNCHANGED storeVars

\* jobs <- j: waits while the channel is full
Main_send ==
    /\ pool.mainpc = "send"
    /\ Len(pool.jobs) < ChanCap
    /\ pool' = [pool EXCEPT !.jobs = Append(@, pool.j),
                            !.j = @ + 1,
                            !.mainpc = IF pool.j = NumJobs THEN "close" ELSE "send"]
    /\ UNCHANGED storeVars

\* close(jobs)
Main_close ==
    /\ pool.mainpc = "close"
    /\ pool' = [pool EXCEPT !.closed = TRUE, !.mainpc = "collect"]
    /\ UNCHANGED storeVars

\* (mutant) the last loop of main runs once more
MoreToCollect_OneMore(r) == r <= NumJobs + 1

\* the condition of the last loop of main: r <= 9
MoreToCollect(r) == r <= NumJobs

\* <-results: waits while the channel is empty; after the last turn main
\* returns and the program ends
Main_collect ==
    /\ pool.mainpc = "collect"
    /\ MoreToCollect(pool.r)
    /\ pool.results # <<>>
    /\ pool' = [pool EXCEPT !.received = @ \cup {Head(pool.results)},
                            !.results = Tail(@),
                            !.r = @ + 1,
                            !.mainpc = IF MoreToCollect(pool.r + 1) THEN "collect"
                                       ELSE "done"]
    /\ UNCHANGED storeVars

\* (mutant) a receive leaves the job in the channel
Worker_range_LeavesJob(k) ==
    /\ pool.mainpc # "done"
    /\ pool.wpc[k] = "range"
    /\ IF pool.jobs # <<>>
       THEN pool' = [pool EXCEPT !.job[k] = Head(pool.jobs),
                                 !.taken[Head(pool.jobs)] = @ + 1,
                                 !.served = @ \cup {k},
                                 !.wpc[k] = "send"]
       ELSE /\ pool.closed
            /\ pool' = [pool EXCEPT !.wpc[k] = "done"]
    /\ UNCHANGED storeVars

\* for job := range jobs: the worker receives the next job, or leaves the
\* loop when the channel is closed and empty, or waits
Worker_range(k) ==
    /\ pool.mainpc # "done"
    /\ pool.wpc[k] = "range"
    /\ IF pool.jobs # <<>>
       THEN pool' = [pool EXCEPT !.job[k] = Head(pool.jobs),
                                 !.jobs = Tail(@),
                                 !.taken[Head(pool.jobs)] = @ + 1,
                                 !.served = @ \cup {k},
                                 !.wpc[k] = "send"]
       ELSE /\ pool.closed
            /\ pool' = [pool EXCEPT !.wpc[k] = "done"]
    /\ UNCHANGED storeVars

\* results <- result: waits while the channel is full
Worker_send(k) ==
    /\ pool.mainpc # "done"
    /\ pool.wpc[k] = "send"
    /\ Len(pool.results) < ChanCap
    /\ pool' = [pool EXCEPT !.results = Append(@, expensiveOperation(pool.job[k])),
                            !.produced = @ + 1,
                            !.job[k] = 0,
                            !.wpc[k] = "range"]
    /\ UNCHANGED storeVars

Main == Main_go \/ Main_send \/ Main_close \/ Main_collect
Worker(k) == Worker_range(k) \/ Worker_send(k)

PoolNext ==
    \/ Main_go
    \/ Main_send
    \/ Main_close
    \/ Main_collect
    \/ \E k \in Workers : Worker_range(k)
    \/ \E k \in Workers : Worker_send(k)

\* the Go scheduler runs every goroutine that can take a step
PoolFairness == WF_vars(Main) /\ \A k \in Workers : WF_vars(Worker(k))

PoolSpec == Init /\ [][PoolNext]_vars /\ PoolFairness

\* ---- scheduling ----
\* the step with which a goroutine gets the mutex
Acquire(p) == AcquireLock(p) \/ AcquireRLock(p)

\* the steps of a goroutine inside a store method, holding the mutex
Body(p) ==
    \/ createUser_1(p) \/ createUser_2(p) \/ createUser_3(p)
    \/ getUser(p) \/ getAllUsers(p)
    \/ updateUser_1(p) \/ updateUser_2(p) \/ updateUser_3(p)
    \/ updateUser_4(p) \/ updateUser_5(p)
    \/ getStats_range(p) \/ getStats_loop(p) \/ getStats(p)

\* The Go scheduler runs every runnable goroutine (weak fairness of the
\* steps inside a method).  The mutex is fair to its waiters: a goroutine
\* blocked in Lock() or RLock() gets the mutex if it is free again and
\* again (sync.RWMutex holds new readers back while a writer waits, and
\* sync.Mutex hands over to a waiter that has waited long): strong fairness
\* of Acquire.  Nothing obliges a caller to make a call.
Fairness == \A p \in Procs : WF_vars(Body(p)) /\ SF_vars(Acquire(p))

\* a goroutine calls a store method
Call(p) ==
    \/ Call_createUser(p) \/ Call_getUser(p) \/ Call_getAllUsers(p)
    \/ Call_updateUser(p) \/ Call_getStats(p)

\* The steps of the goroutines with the clock standing still: no branch of
\* a store method depends on a reading of time.Now(), so which calls
\* return does not depend on how time passes.
FairNext == \E p \in Procs : Call(p) \/ Acquire(p) \/ Body(p)

\* the store behind its handlers for POST /users, GET /users/:id and
\* PUT /users/:id, each request served by a goroutine: handleGetUser and
\* handleUpdateUser pass their arguments to getUser and updateUser as they
\* come
HandlerNext ==
    \/ \E p \in Procs : handleCreateUser(p)
    \/ \E p \in Procs : Call_getUser(p)
    \/ \E p \in Procs : Call_updateUser(p)
    \/ \E p \in Procs : AcquireLock(p)
    \/ \E p \in Procs : AcquireRLock(p)
    \/ \E p \in Procs : createUser_1(p)
    \/ \E p \in Procs : createUser_2(p)
    \/ \E p \in Procs : createUser_3(p)
    \/ \E p \in Procs : getUser(p)
    \/ \E p \in Procs : updateUser_1(p)
    \/ \E p \in Procs : updateUser_2(p)
    \/ \E p \in Procs : updateUser_3(p)
    \/ \E p \in Procs : updateUser_4(p)
    \/ \E p \in Procs : updateUser_5(p)
    \/ \E p \in Procs : Encode_1(p)
    \/ \E p \in Procs : Encode_2(p)
    \/ Tick

HandlerSpec == Init /\ [][HandlerNext]_vars

FairSpec == Init /\ [][FairNext]_vars /\ Fairness

TypeOK ==
    /\ nextID \in 1..(MaxUsers + 1)
    /\ now \in 1..MaxTime
    /\ \A p \in Procs : calls[p] \in 0..MaxCalls
    /\ mutex.writer \in Procs \cup {0}
    /\ mutex.readers \subseteq Procs
    /\ Len(heap) <= MaxUsers

\* ======================= the claims =======================

\* C1: every id a createUser call returns differs from every id returned
\* before it, and is strictly greater than the id returned by every
\* createUser that had completed when this call was made.
C1_CreateIdsUniqueIncreasing ==
    [][\A p \in Procs :
        (pc[p] = "create_3" /\ pc'[p] = "ret") =>
            LET id == heap'[ret'[p].ptr].ID
            IN /\ id \notin ReturnedIds
               /\ id > hist.callFloor[p]]_vars

\* a createUser called after another one had returned has returned too
C1_Witness ==
    \E p \in Procs :
        /\ pc[p] = "ret" /\ ret[p].kind = "create"
        /\ hist.callFloor[p] >= 1
        /\ Len(hist.createRets) = 2

\* C2: once the N createUser calls made so far on the store, concurrent or
\* not, have all returned, the map holds exactly N users and their ids are
\* exactly 1..N.
CreatesRunning == {p \in Procs : op[p].kind = "create"}

C2_ConcurrentCreatesFillOneToN ==
    CreatesRunning = {} =>
        LET N == Len(hist.createRets)
        IN /\ DOMAIN users = 1..N
           /\ Cardinality({users[k] : k \in DOMAIN users}) = N
           /\ {heap[users[k]].ID : k \in DOMAIN users} = 1..N

\* two createUser calls that overlapped in time have both returned
C2_Witness ==
    /\ \A p \in {1, 2} : /\ pc[p] = "ret" /\ ret[p].kind = "create"
                         /\ hist.callFloor[p] = 0
    /\ DOMAIN users = {1, 2}

\* C3: every user in the map has the id it is stored under, and no two
\* entries of the map hold users with the same id.
C3_IdEqualsKey ==
    /\ \A k \in DOMAIN users : heap[users[k]].ID = k
    /\ \A k1, k2 \in DOMAIN users :
        k1 # k2 => /\ users[k1] # users[k2]
                   /\ heap[users[k1]].ID # heap[users[k2]].ID

\* the map holds two users and an updateUser has written one of them
C3_Witness ==
    /\ Cardinality(DOMAIN users) = 2
    /\ \E p \in Procs : pc[p] = "ret" /\ ret[p].kind = "update" /\ ret[p].found

\* C4: nextID is strictly greater than every id createUser has returned,
\* nextID never decreases, and createUser returns no id twice.
C4_NextIDAboveIssued ==
    /\ [](/\ \A id \in ReturnedIds : nextID > id
          /\ Cardinality(ReturnedIds) = Len(hist.createRets))
    /\ [][nextID' >= nextID]_vars

\* two ids have been issued
C4_Witness ==
    /\ Len(hist.createRets) = 2
    /\ nextID = 3

\* C5: a getUser(id) that runs while no updateUser has touched the user
\* createUser returned with that id finds it (found = true) and returns
\* that very user, every field as createUser returned it; a getAllUsers
\* holds every user createUser has returned exactly once.
Untouched == {a \in ReturnedPtrs : hist.snap[a] # NoUser}

C5_GetAndListAfterCreate ==
    [][\A p \in Procs :
        /\ (pc[p] = "get_1" /\ pc'[p] = "ret") =>
              \A a \in Untouched :
                  hist.snap[a].ID = op[p].id =>
                      /\ ret'[p].found
                      /\ ret'[p].ptr = a
                      /\ heap'[ret'[p].ptr] = hist.snap[a]
        /\ (pc[p] = "list_1" /\ pc'[p] = "ret") =>
              \A a \in ReturnedPtrs :
                  /\ Cardinality({i \in 1..Len(ret'[p].list) : ret'[p].list[i] = a}) = 1
                  /\ Cardinality({i \in 1..Len(ret'[p].list) :
                                      heap'[ret'[p].list[i]].ID = heap'[a].ID}) = 1
                  /\ a \in Untouched => heap'[a] = hist.snap[a]]_vars

\* a getUser has returned a user that no updateUser has touched, and a
\* getAllUsers has returned a slice with two users
C5_Witness ==
    /\ \E p \in Procs : /\ pc[p] = "ret" /\ ret[p].kind = "get" /\ ret[p].found
                        /\ ret[p].ptr \in Untouched
    /\ \E p \in Procs : pc[p] = "ret" /\ ret[p].kind = "list" /\ Len(ret[p].list) = 2

\* C6: updateUser(id, {Status: "inactive"}) on a user in the map leaves its
\* ID, Name, Email and CreatedAt as they were, sets Status to "inactive" and
\* UpdatedAt to a time no earlier than before; no step of the call changes
\* any other user, the map or nextID.
StatusOnly == Payload("", "", "inactive")

C6_StatusOnlyUpdate ==
    [][\A p \in Procs :
        (op[p].kind = "update" /\ op[p].updates = StatusOnly /\ pc'[p] # pc[p]
            /\ pc[p] \in {"update_1", "update_2", "update_3", "update_4", "update_5"}
            /\ op[p].id \in DOMAIN users) =>
            LET a == users[op[p].id]
            IN /\ users' = users /\ nextID' = nextID
               /\ \A b \in 1..Len(heap) : b # a => heap'[b] = heap[b]
               /\ pc[p] = "update_5" =>
                    /\ pc'[p] = "ret" /\ ret'[p].found /\ ret'[p].ptr = a
                    /\ heap'[a] = [hist.pre[p] EXCEPT !.Status = "inactive",
                                                      !.UpdatedAt = heap'[a].UpdatedAt]
                    /\ heap'[a].UpdatedAt >= hist.pre[p].UpdatedAt]_vars

\* a status-only update has changed the status of a user that has a name,
\* at a later time than the user was last written
C6_Witness ==
    \E a \in 1..Len(heap) :
        /\ heap[a].Status = "inactive" /\ heap[a].Name = "alice"
        /\ heap[a].UpdatedAt > heap[a].CreatedAt

\* C7: a getUser or updateUser whose id is not a key of the map returns
\* not found (false, and no user) and changes neither the map, nor any
\* user, nor nextID.
C7_NotFoundChangesNothing ==
    [][\A p \in Procs :
        (pc[p] \in {"get_1", "update_1"} /\ pc'[p] # pc[p]
            /\ op[p].id \notin DOMAIN users) =>
            /\ pc'[p] = "ret"
            /\ ~ret'[p].found /\ ret'[p].ptr = Nil
            /\ users' = users /\ heap' = heap /\ nextID' = nextID]_vars

\* an updateUser and a getUser have both returned not found, one of them
\* on the empty store
C7_Witness ==
    /\ \E p \in Procs : pc[p] = "ret" /\ ret[p].kind = "update" /\ ~ret[p].found
    /\ \E p \in Procs : pc[p] = "ret" /\ ret[p].kind = "get" /\ ~ret[p].found
    /\ users = <<>>

\* the statuses the users in the map have, and the number of users with
\* exactly the status s
StatusesPresent == {heap[users[k]].Status : k \in DOMAIN users}
CountWith(s) == Cardinality({k \in DOMAIN users : heap[users[k]].Status = s})

\* what getStats gives for three users with the statuses active, active
\* and inactive
ExampleStats ==
    StatsOf(<<1, 2, 3>>, <<User(1, "a", "a@x", "active", 1, 1),
                           User(2, "b", "b@x", "active", 1, 1),
                           User(3, "c", "c@x", "inactive", 1, 1)>>)

\* C8 (as claimed): getStats returns the number of users and a count per
\* status keyed by exactly the statuses present, each the number of users
\* with exactly that status.
C8_StatsPerStatusAsClaimed ==
    [][\A p \in Procs :
        (pc[p] = "stats_1" /\ pc'[p] = "ret") =>
            /\ ret'[p].stats.TotalUsers = Cardinality(DOMAIN users)
            /\ PerStatus(ret'[p].stats) = [s \in StatusesPresent |-> CountWith(s)]]_vars

\* C8 (amended): getStats returns TotalUsers = the number of users in the
\* map, ActiveUsers = the number of users whose status is exactly "active",
\* and InactiveUsers = the number of all other users, whatever their status;
\* both counts are present also when they are 0.  The statuses active,
\* active, inactive give 3, 2 and 1.
C8_StatsActiveAndRest ==
    [][/\ ExampleStats = [TotalUsers |-> 3, ActiveUsers |-> 2, InactiveUsers |-> 1]
       /\ \A p \in Procs :
            (pc[p] = "stats_1" /\ pc'[p] = "ret") =>
                /\ ret'[p].stats.TotalUsers = Cardinality(DOMAIN users)
                /\ DOMAIN PerStatus(ret'[p].stats) = {"active", "inactive"}
                /\ PerStatus(ret'[p].stats)["active"] = CountWith("active")
                /\ PerStatus(ret'[p].stats)["inactive"] =
                       Cardinality(DOMAIN users) - CountWith("active")]_vars

\* getStats has counted two users, one of them with the status "pending"
C8_Witness ==
    \E p \in Procs :
        /\ pc[p] = "ret" /\ ret[p].kind = "stats"
        /\ ret[p].stats.TotalUsers = 2 /\ ret[p].stats.InactiveUsers >= 1
        /\ "pending" \in StatusesPresent

\* C9 (as claimed): on an empty store getStats returns a total of 0 and a
\* per-status mapping with no entry.
C9_EmptyStatsAsClaimed ==
    [][\A p \in Procs :
        (pc[p] = "stats_1" /\ pc'[p] = "ret" /\ DOMAIN users = {}) =>
            /\ ret'[p].stats.TotalUsers = 0
            /\ DOMAIN PerStatus(ret'[p].stats) = {}]_vars

\* C9 (amended): on an empty store getStats returns a total of 0 and both
\* of its per-status counts, ActiveUsers and InactiveUsers, equal to 0.
C9_EmptyStatsAllZero ==
    [][\A p \in Procs :
        (pc[p] = "stats_1" /\ pc'[p] = "ret" /\ DOMAIN users = {}) =>
            /\ ret'[p].stats.TotalUsers = 0
            /\ \A s \in DOMAIN PerStatus(ret'[p].stats) : PerStatus(ret'[p].stats)[s] = 0]_vars

\* getStats has returned and the store is still empty
C9_Witness ==
    /\ \E p \in Procs : pc[p] = "ret" /\ ret[p].kind = "stats"
    /\ DOMAIN users = {}
    /\ heap = <<>>

\* C10 (as claimed): once getAllUsers has returned a slice, nothing a later
\* createUser or updateUser does changes what the holder of the slice sees
\* through it: its length and the fields of its elements.
Seen(l, h) == [i \in 1..Len(l) |-> h[l[i]]]

C10_ListDoesNotAlias ==
    [][\A p \in Procs :
        (pc[p] = "ret" /\ ret[p].kind = "list" /\ ret'[p] = ret[p]) =>
            Seen(ret'[p].list, heap') = Seen(ret[p].list, heap)]_vars

\* the goroutines between Lock() and Unlock() of createUser or updateUser,
\* and those between RLock() and RUnlock() of getUser, getAllUsers or getStats
InWrite == {p \in Procs : pc[p] \in {"create_1", "create_2", "create_3", "update_1",
                                     "update_2", "update_3", "update_4", "update_5"}}
InRead == {p \in Procs : pc[p] \in {"get_1", "list_1", "stats_range", "stats_loop",
                                    "stats_1"}}

\* C11: at most one goroutine is inside createUser or updateUser, and while
\* one is, none is inside getUser, getAllUsers or getStats (several of
\* those may be inside together: C11_Witness).
C11_WritersExcludeAll ==
    /\ Cardinality(InWrite) <= 1
    /\ InWrite # {} => InRead = {}

\* two goroutines are inside read critical sections at the same time
C11_Witness == Cardinality(InRead) = 2

\* C12: what a getUser, getAllUsers or getStats reads is never half of a
\* createUser or of an updateUser: the counter has advanced exactly once per
\* user in the map, and every user an updateUser of another goroutine has
\* found is still as that updateUser found it.
C12_ReadsSeeWholeOperations ==
    [][\A p \in Procs :
        (pc[p] \in {"get_1", "list_1", "stats_1"} /\ pc'[p] = "ret") =>
            /\ Cardinality(DOMAIN users) = nextID - 1
            /\ \A q \in Procs \ {p} :
                (op[q].kind = "update" /\ op[q].ptr # Nil) =>
                    heap[op[q].ptr] = hist.pre[q]]_vars

\* a reader that has read before waits at RLock() while an updateUser has
\* written some of its fields but not all
C12_Witness ==
    \E p, q \in Procs :
        /\ pc[p] = "rlock" /\ calls[p] = 2
        /\ pc[q] = "update_4" /\ heap[op[q].ptr] # hist.pre[q]

\* no goroutine is inside a call
Quiescent == \A p \in Procs : pc[p] \in {"idle", "ret"}

\* C14: a store method that has returned, on any path, has released the
\* lock it took: the mutex is held by exactly the goroutines inside a
\* critical section, so with no call in progress it is free and both Lock()
\* and RLock() of a next call can return.
C14_LockReleasedOnEveryPath ==
    /\ mutex.readers = InRead
    /\ mutex.writer # 0 <=> InWrite # {}
    /\ mutex.writer # 0 => InWrite = {mutex.writer}
    /\ Quiescent => mutex = NoLock /\ CanLock(mutex) /\ CanRLock(mutex)

\* an updateUser and a getUser have returned not found and no call is in
\* progress
C14_Witness ==
    /\ Quiescent
    /\ \E p \in Procs : ret[p].kind = "update" /\ ~ret[p].found
    /\ \E p \in Procs : ret[p].kind = "get" /\ ~ret[p].found

\* C15: createUser overwrites whatever ID the caller's User carried with the
\* value nextID has when the call runs (under the lock), and the User it
\* stores and returns has that id: one less than the advanced counter.
C15_CreateIgnoresSuppliedId ==
    [][\A p \in Procs :
        /\ (pc[p] = "create_1" /\ pc'[p] = "create_2") =>
              heap'[op[p].ptr].ID = nextID
        /\ (pc[p] = "create_3" /\ pc'[p] = "ret") =>
              /\ heap'[ret'[p].ptr].ID = nextID - 1
              /\ users'[nextID - 1] = ret'[p].ptr]_vars

\* createUser has returned the User that came with ID 7 (the one with the
\* status "pending"), as the second user of the store
C15_Witness ==
    \E p \in Procs :
        /\ ret[p].kind = "create"
        /\ heap[ret[p].ptr].Status = "pending"
        /\ heap[ret[p].ptr].ID = 2
        /\ users[2] = ret[p].ptr

\* C16: the User createUser returns has the status "active" if the caller's
\* User had none and the caller's status otherwise; CreatedAt and UpdatedAt
\* are readings of the clock taken during the call, whatever timestamps the
\* caller's User carried; and the User is added to the map under its new
\* id, which was not a key before.
C16_CreateDefaultsAndStamps ==
    [][\A p \in Procs :
        /\ (pc[p] = "create_2" /\ pc'[p] = "create_3") =>
              heap'[op[p].ptr].CreatedAt = now
        /\ (pc[p] = "create_3" /\ pc'[p] = "ret") =>
              LET a == ret'[p].ptr
                  passed == hist.snap[a]
                  u == heap'[a]
              IN /\ passed.Status = "" => u.Status = "active"
                 /\ passed.Status # "" => u.Status = passed.Status
                 /\ u.UpdatedAt = now
                 /\ u.CreatedAt = heap[a].CreatedAt
                 /\ u.CreatedAt <= now
                 /\ u.ID \notin DOMAIN users
                 /\ DOMAIN users' = DOMAIN users \cup {u.ID}
                 /\ users'[u.ID] = a]_vars

\* createUser has returned a User that came without a status and one that
\* came with the status "pending" and the timestamps 9, the latter while
\* the clock advanced during the call
C16_Witness ==
    \E a, b \in ReturnedPtrs :
        /\ hist.snap[a].Status = "active" /\ hist.snap[a].Name = "alice"
        /\ hist.snap[b].Status = "pending"
        /\ hist.snap[b].CreatedAt = 1 /\ hist.snap[b].UpdatedAt = 2

\* C17: an updateUser that finds its id returns that user and true; a
\* field among Name, Email and Status has the update's value if the update
\* provides one (a non-empty string) and the value updateUser found
\* otherwise; ID and CreatedAt are as found; UpdatedAt is the clock reading
\* of the call.
C17_UpdateAppliesProvidedFields ==
    [][\A p \in Procs :
        (pc[p] = "update_5" /\ pc'[p] = "ret") =>
            LET old == hist.pre[p]
                new == op[p].updates
                u == heap'[ret'[p].ptr]
            IN /\ ret'[p].found
               /\ ret'[p].ptr = users[op[p].id]
               /\ u.Name = (IF new.Name # "" THEN new.Name ELSE old.Name)
               /\ u.Email = (IF new.Email # "" THEN new.Email ELSE old.Email)
               /\ u.Status = (IF new.Status # "" THEN new.Status ELSE old.Status)
               /\ u.ID = old.ID
               /\ u.CreatedAt = old.CreatedAt
               /\ u.UpdatedAt = now
               /\ u.UpdatedAt >= old.UpdatedAt]_vars

\* an updateUser with a name and an email but no status has returned the
\* user that was created with the status "pending", at a later clock reading
C17_Witness ==
    \E p \in Procs :
        /\ ret[p].kind = "update" /\ ret[p].found
        /\ heap[ret[p].ptr].Name = "bob"
        /\ heap[ret[p].ptr].Status = "pending"
        /\ heap[ret[p].ptr].CreatedAt < heap[ret[p].ptr].UpdatedAt

\* C18: no step of any store method changes the ID or the CreatedAt of a
\* user that is in the map, or the user a key maps to, also when an
\* updateUser is given a User with its own ID and timestamps: the id of a
\* stored user is the one createUser returned and its key.
C18_IdAndCreatedAtImmutable ==
    [][/\ \A id \in DOMAIN users :
             /\ id \in DOMAIN users'
             /\ users'[id] = users[id]
             /\ heap'[users[id]].ID = heap[users[id]].ID
             /\ heap'[users[id]].CreatedAt = heap[users[id]].CreatedAt
       /\ \A i \in 1..Len(hist.createRets) :
             /\ heap[hist.createRets[i].ptr].ID = hist.createRets[i].id
             /\ users[hist.createRets[i].id] = hist.createRets[i].ptr]_vars

\* an updateUser given a User with the ID 7 and the timestamps 9 has
\* returned a user that still has its id and its earlier CreatedAt
C18_Witness ==
    \E p \in Procs :
        /\ ret[p].kind = "update" /\ ret[p].found
        /\ heap[ret[p].ptr].Name = "bob"
        /\ heap[ret[p].ptr].ID \in DOMAIN users
        /\ users[heap[ret[p].ptr].ID] = ret[p].ptr
        /\ heap[ret[p].ptr].CreatedAt = 1
        /\ heap[ret[p].ptr].UpdatedAt = 2

\* the read methods
Reads == {"get", "list", "stats"}

\* C19: no step a goroutine takes in getUser, getAllUsers or getStats, from
\* the call to the return, changes the users map, a field of any User, or
\* nextID.
C19_ReadsDoNotMutate ==
    [][\A p \in Procs :
        (pc'[p] # pc[p] /\ (op[p].kind \in Reads \/ op'[p].kind \in Reads)) =>
            /\ users' = users
            /\ heap' = heap
            /\ nextID' = nextID]_vars

\* a getUser that found its user and a getStats over two users have returned
C19_Witness ==
    \E p, q \in Procs :
        /\ ret[p].kind = "get" /\ ret[p].found
        /\ ret[q].kind = "stats" /\ ret[q].stats.TotalUsers = 2

\* the pointers of a slice with the Users they point to in heap h
Content(l, h) == {<<l[i], h[l[i]]>> : i \in 1..Len(l)}

\* C20 as claimed: a getAllUsers that follows another one, with no
\* createUser or updateUser having changed the store in between, returns
\* the same users in the same order.
C20_ListOrderStable ==
    [][\A p \in Procs :
        (pc[p] = "list_1" /\ pc'[p] = "ret" /\ hist.last.valid) =>
            ret'[p].list = hist.last.list]_vars

\* C20: a getAllUsers that follows another one, with no createUser or
\* updateUser having changed the store in between, returns a slice of the
\* same length with the same users, each with the same field values; the
\* order of the two slices may differ.
C20_ListContentStable ==
    [][\A p \in Procs :
        (pc[p] = "list_1" /\ pc'[p] = "ret" /\ hist.last.valid) =>
            /\ Len(ret'[p].list) = Len(hist.last.list)
            /\ Content(ret'[p].list, heap') =
                  {<<hist.last.list[i], hist.last.vals[i]>> : i \in 1..Len(hist.last.list)}]_vars

\* two getAllUsers have returned the two users of the store with nothing
\* changed in between, the second in the opposite order of the first
C20_Witness ==
    \E p \in Procs :
        /\ ret[p].kind = "list" /\ Len(ret[p].list) = 2
        /\ calls[p] = 2
        /\ hist.last.valid
        /\ \E q \in Procs \ {p} :
              /\ ret[q].kind = "list" /\ calls[q] = 2
              /\ ret[q].list = <<ret[p].list[2], ret[p].list[1]>>

\* goroutine p is inside a call of a store method: called, not yet returned
InCall(p) == pc[p] \notin {"idle", "ret"}

\* C13: with a scheduler that runs every goroutine and a mutex that is fair
\* to its waiters, every call of createUser, getUser, getAllUsers,
\* updateUser and getStats returns, whatever calls the other goroutines
\* make meanwhile.
C13_EveryCallReturns == \A p \in Procs : InCall(p) ~> (pc[p] = "ret")

\* a goroutine waits in Lock() for its updateUser while the other one is
\* inside getAllUsers, holding the mutex for reading
C13_Witness ==
    \E p, q \in Procs :
        /\ pc[p] = "lock" /\ op[p].kind = "update"
        /\ pc[q] = "list_1" /\ mutex.readers = {q}
        /\ ~CanLock(mutex)

\* the goroutines inside the critical section of createUser
InCreate == {p \in Procs : pc[p] \in {"create_1", "create_2", "create_3"}}

\* C24: whenever no goroutine is inside createUser, the keys of the users
\* map are exactly 1..nextID-1 and the map has nextID-1 entries, whatever
\* getUser, getAllUsers, updateUser and getStats calls are in progress.
C24_KeysAreOneToNextID ==
    InCreate = {} =>
        /\ DOMAIN users = 1..(nextID - 1)
        /\ Cardinality(DOMAIN users) = nextID - 1

\* two users are stored, an updateUser is at work on one of them and
\* another goroutine waits for the mutex
C24_Witness ==
    /\ nextID = 3
    /\ DOMAIN users = {1, 2}
    /\ \E p, q \in Procs :
          /\ pc[p] = "update_3"
          /\ pc[q] \in {"lock", "rlock"}

\* C27: every user in the map has a non-empty Status, and no step turns a
\* non-empty Name, Email or Status of a stored user into the empty string:
\* createUser stores "active" for an empty Status, and updateUser skips the
\* empty fields of its updates.
C27_StatusNeverEmpty ==
    [][/\ \A id \in DOMAIN users' : heap'[users'[id]].Status # ""
       /\ \A id \in DOMAIN users :
             /\ heap[users[id]].Name # "" => heap'[users[id]].Name # ""
             /\ heap[users[id]].Email # "" => heap'[users[id]].Email # ""
             /\ heap[users[id]].Status # "" => heap'[users[id]].Status # ""]_vars

\* an updateUser whose updates have an empty Status has returned a user
\* that was created without a status: it is still "active"
C27_Witness ==
    \E p \in Procs :
        /\ ret[p].kind = "update" /\ ret[p].found
        /\ heap[ret[p].ptr].Name = "bob"
        /\ heap[ret[p].ptr].Status = "active"

\* C29: for the store of every reachable state, the ServerStats the loop
\* of getStats computes has ActiveUsers + InactiveUsers = TotalUsers = the
\* number of users in the map, ActiveUsers being the number of users whose
\* Status is "active" and InactiveUsers the number of all others.
C29_StatsAddUp ==
    LET stats == StatsOf(users, heap)
    IN /\ stats.ActiveUsers + stats.InactiveUsers = stats.TotalUsers
       /\ stats.TotalUsers = Cardinality(DOMAIN users)
       /\ stats.ActiveUsers = CountWith("active")
       /\ stats.InactiveUsers =
             Cardinality({k \in DOMAIN users : heap[users[k]].Status # "active"})

\* the store holds a "pending" and an "inactive" user, and getStats has
\* returned 2 users, none active and 2 inactive
C29_Witness ==
    /\ StatusesPresent = {"pending", "inactive"}
    /\ \E p \in Procs :
          /\ ret[p].kind = "stats"
          /\ ret[p].stats = [TotalUsers |-> 2, ActiveUsers |-> 0, InactiveUsers |-> 2]

\* C23: the ServerStats a getStats call returns is the one of the store as
\* it is at the instant of the return, total and both counts together,
\* although the loop ran over several steps with createUser and updateUser
\* calls of other goroutines in progress: no step of theirs fell between
\* the first iteration and the return.
C23_StatsOfOneInstant ==
    [][\A p \in Procs :
        (pc[p] = "stats_1" /\ pc'[p] = "ret") =>
            ret'[p].stats = StatsOf(users, heap)]_vars

\* getStats has counted an inactive user and is about to return while
\* another goroutine waits in Lock() with an updateUser
C23_Witness ==
    \E p, q \in Procs :
        /\ pc[p] = "stats_1" /\ op[p].acc.InactiveUsers = 1
        /\ pc[q] = "lock" /\ op[q].kind = "update"

\* the pointers in a slice
Range(l) == {l[i] : i \in 1..Len(l)}

\* the live value u of a user is the value val that a createUser or an
\* updateUser returned, or (when n > 0 later updateUser calls have found
\* the user) a value written after it, never one from before
Reflects(u, val, n) ==
    /\ n = 0 => u = val
    /\ u.ID = val.ID
    /\ u.CreatedAt = val.CreatedAt
    /\ u.UpdatedAt >= val.UpdatedAt

\* C21: a getUser, getAllUsers or getStats that a goroutine calls after its
\* own createUser or updateUser has returned a user sees that user as
\* returned, or as later updateUser calls left it, never an earlier state:
\* getUser of its id finds that very user, getAllUsers contains it, and
\* getStats counts at least the users the map had then, this one under
\* its status.
C21_OwnMutationVisible ==
    [][\A p \in Procs :
        LET m == hist.mut[p]
            r == ret'[p]
        IN (m.ptr # Nil /\ pc'[p] = "ret") =>
              /\ (pc[p] = "get_1" /\ op[p].id = m.val.ID) =>
                    /\ r.found /\ r.ptr = m.ptr
                    /\ Reflects(heap'[r.ptr], m.val, m.after)
              /\ (pc[p] = "list_1") =>
                    /\ m.ptr \in Range(r.list)
                    /\ Reflects(heap'[m.ptr], m.val, m.after)
              /\ (pc[p] = "stats_1") =>
                    /\ r.stats.TotalUsers >= m.total
                    /\ m.after = 0 =>
                          IF m.val.Status = "active" THEN r.stats.ActiveUsers >= 1
                          ELSE r.stats.InactiveUsers >= 1]_vars

\* a goroutine whose updateUser had returned a user has then got it from
\* getUser, after the other goroutine had updated the same user
C21_Witness ==
    \E p \in Procs :
        /\ hist.mut[p].ptr # Nil /\ hist.mut[p].updates # NoUser
        /\ hist.mut[p].after = 1
        /\ ret[p].kind = "get" /\ ret[p].ptr = hist.mut[p].ptr
        /\ heap[ret[p].ptr] # hist.mut[p].val

\* the fields among Name, Email and Status that an update provides
ProvidedFields(u) ==
    {f \in {"Name", "Email", "Status"} : u[f] # ""}

\* C26: when two updateUser calls of different goroutines on the same user
\* have provided disjoint fields and both have returned, and no other
\* updateUser has found the user since, the user has every field either of
\* them provided, with the value provided: the later one has not undone
\* the earlier one, also when the two calls overlapped in time.
C26_NoLostUpdate ==
    \A p, q \in Procs :
        LET first == hist.mut[p]
            second == hist.mut[q]
        IN (/\ p # q
            /\ first.ptr # Nil /\ first.ptr = second.ptr
            /\ first.updates # NoUser /\ second.updates # NoUser
            /\ ProvidedFields(first.updates) \cap ProvidedFields(second.updates) = {}
            /\ first.after = 1 /\ second.after = 0
            /\ \A r \in Procs : op[r].kind = "update" => op[r].ptr # first.ptr)
           => /\ \A f \in ProvidedFields(first.updates) :
                    heap[first.ptr][f] = first.updates[f]
              /\ \A f \in ProvidedFields(second.updates) :
                    heap[first.ptr][f] = second.updates[f]

\* an updateUser with a status only returned while the other goroutine's
\* updateUser of the same id, with a name and an email, was in progress;
\* that one has returned too
C26_Witness ==
    \E p, q \in Procs :
        /\ p # q
        /\ hist.mut[p].overlap /\ hist.mut[p].after = 1
        /\ hist.mut[p].updates = StatusOnly
        /\ hist.mut[q].ptr = hist.mut[p].ptr /\ hist.mut[q].after = 0
        /\ hist.mut[q].updates.Name = "bob"
        /\ pc[p] = "ret" /\ pc[q] = "ret"

\* C22 as claimed: no user that came in through handleCreateUser and is in
\* the map has a name that is empty or white space only (the handler
\* rejects such a request before it calls createUser).
C22_NoBlankNameThroughHandler ==
    \A id \in DOMAIN users :
        users[id] \in hist.handled => heap[users[id]].Name \notin WhitespaceOnly

\* an updateUser is writing the fields of the user at address a
WriterAt(a) ==
    \E q \in Procs :
        /\ pc[q] \in {"update_2", "update_3", "update_4", "update_5"}
        /\ op[q].ptr = a

\* C25 as claimed: the response a handler encodes from the user a store
\* method returned is a value that user had in the store at one instant
\* between updateUser calls, and the handler reads no field while an
\* updateUser is writing the user.
C25_ResponseOfOneInstant ==
    [][\A p \in Procs :
        /\ (pc[p] = "ret" /\ pc'[p] = "encode") => ~WriterAt(ret[p].ptr)
        /\ (pc[p] = "encode" /\ pc'[p] = "ret") =>
              /\ ~WriterAt(ret[p].ptr)
              /\ ret'[p].resp \in hist.seen[p]]_vars

\* C28: a request that handleCreateUser rejects leaves the users map,
\* nextID and every User as they were, and the ids createUser has returned
\* are 1, 2, ... without a gap, however many requests were rejected between
\* them.
C28_RejectedCreateTakesNoId ==
    [][/\ \A p \in Procs :
             (calls'[p] # calls[p] /\ ret'[p].kind = "rejected") =>
                 /\ users' = users
                 /\ nextID' = nextID
                 /\ heap' = heap
       /\ {hist'.createRets[i].id : i \in 1..Len(hist'.createRets)} =
             1..Len(hist'.createRets)]_vars

\* the only goroutine to have made a request had its first one rejected and
\* got id 1 for its second one
C28_Witness ==
    \E p \in Procs :
        /\ calls[p] = 2 /\ \A q \in Procs \ {p} : calls[q] = 0
        /\ hist.rejected = 1
        /\ ret[p].kind = "create" /\ heap[ret[p].ptr].ID = 1
        /\ nextID = 2

\* what holds of the pool at every moment: no job has gone to two workers
\* and no more results than jobs were sent; and once main has returned:
\* every job went to exactly one worker, 9 results were sent and main has
\* received them all
PoolSafe ==
    /\ \A n \in 1..NumJobs : pool.taken[n] <= 1
    /\ pool.produced <= NumJobs
    /\ pool.mainpc = "done" =>
          /\ \A n \in 1..NumJobs : pool.taken[n] = 1
          /\ pool.produced = NumJobs
          /\ pool.r = NumJobs + 1
          /\ pool.received = {expensiveOperation(n) : n \in 1..NumJobs}
          /\ pool.results = <<>>

\* C30: with every goroutine scheduled fairly, main of the worker pool
\* returns under every interleaving (nobody is left waiting on a channel
\* that main depends on), each of the 9 jobs having been received by
\* exactly one of the 3 workers, exactly 9 results having been sent, and
\* main having received all 9.
C30_PoolTerminates == []PoolSafe /\ <>(pool.mainpc = "done")

\* main has returned, and each of the three workers had received jobs
C30_Witness ==
    /\ pool.mainpc = "done"
    /\ pool.served = Workers

====
